---- MODULE Spec2Model ----
(***************************************************************************)
(* BatchBuddy (src/ap.py): uploaded score files are cleaned and normalized *)
(* to percentages, students are cut into tiers, carved into batches of at  *)
(* most 2 High + 2 Medium + 1 Low, given a rotating weekly topic, and      *)
(* composed into one table.                                                *)
(*                                                                         *)
(* Conventions of the model                                                *)
(*  - a Python str is a sequence of one-character strings;                 *)
(*  - a DataFrame is the sequence of its rows, a row a record;             *)
(*  - a float percentage earned / total * 100 is the exact rational        *)
(*    [num, den] with den > 0 (rounding of floats is not modelled);        *)
(*  - NaN is the string "NaN" in a category or topic cell and the empty     *)
(*    sequence in a name or score cell (read_csv reads an empty cell as    *)
(*    NaN, so no cell holds the empty string);                             *)
(*  - the label f"Batch {i + 1}" is the number i + 1;                      *)
(*  - a raised exception is its type name, "" when nothing was raised.     *)
(***************************************************************************)
EXTENDS Integers, Sequences, FiniteSets, TLC

VARIABLES
    pc,             \* position of the script
    uploaded_files, \* st.file_uploader(...): the sequence of uploaded files
    custom_topics,  \* the topic list of lines 21-35
    weeks,          \* assign_topics' weeks parameter
    fi,             \* load_and_clean_data: index of the next file of the for loop
    all_data,       \* load_and_clean_data: the cleaned frames appended so far
    errors,         \* the st.error reports, in order: <<file index, exception>>
    data,           \* the frame returned by load_and_clean_data / categorize_students
    categorized,    \* create_balanced_batches: the three pools
    batches,        \* create_balanced_batches: the batches appended so far
    week,           \* assign_topics: the outer loop variable
    bi,             \* assign_topics: the inner loop index i (0-based)
    ptr,            \* assign_topics: position of itertools.cycle in the topics
    assignments,    \* assign_topics: the assignments appended so far
    output,         \* prepare_output's result
    shown,          \* what the page has rendered: "success", "table", "csv", "zip"
    err,            \* the uncaught exception that ended the run: [type, at]
    raw,            \* the raw score string handed to the score lambda
    result          \* what the score lambda produced for raw

vars == <<pc, uploaded_files, custom_topics, weeks, fi, all_data, errors, data,
          categorized, batches, week, bi, ptr, assignments, output, shown, err,
          raw, result>>

NaN == "NaN"
NoErr == [type |-> "", at |-> ""]

Min(a, b) == IF a <= b THEN a ELSE b
Max(a, b) == IF a >= b THEN a ELSE b

RECURSIVE Flatten(_)
\* pd.concat(frames, ignore_index=True): the rows of the frames, in order.
Flatten(frames) ==
    IF frames = <<>> THEN <<>> ELSE Head(frames) \o Flatten(Tail(frames))

(***************************************************************************)
(* Score normalization: the lambda of line 49.                             *)
(***************************************************************************)
Digits == {"0", "1", "2"}
Chars == Digits \cup {"/", "-", " ", "a"}

DigitVal(c) == CASE c = "0" -> 0 [] c = "1" -> 1 [] c = "2" -> 2

RECURSIVE Split(_)
\* x.split('/'): the pieces between the slashes, all of them.
Split(s) ==
    IF \A i \in 1..Len(s) : s[i] # "/"
    THEN <<s>>
    ELSE LET i == CHOOSE k \in 1..Len(s) :
                      s[k] = "/" /\ \A j \in 1..(k - 1) : s[j] # "/"
         IN  <<SubSeq(s, 1, i - 1)>> \o Split(SubSeq(s, i + 1, Len(s)))

RECURSIVE Strip(_)
\* str.strip(): leading and trailing blanks removed.
Strip(s) ==
    IF s = <<>> THEN s
    ELSE IF s[1] = " " THEN Strip(Tail(s))
    ELSE IF s[Len(s)] = " " THEN Strip(SubSeq(s, 1, Len(s) - 1))
    ELSE s

RECURSIVE Run(_, _)
\* Length of the longest prefix of s made of characters of set.
Run(s, set) ==
    IF s = <<>> \/ s[1] \notin set THEN 0 ELSE 1 + Run(Tail(s), set)

RECURSIVE Tokens(_)
\* Python's tokenizer on the characters of Chars: blanks separate, "-" is an
\* operator, digits form a number, a letter starts a name; digits that run
\* into a letter ("1a") are an invalid decimal literal.
Tokens(s) ==
    IF s = <<>> THEN <<>>
    ELSE IF s[1] = " " THEN Tokens(Tail(s))
    ELSE IF s[1] = "-" THEN <<[t |-> "op", text |-> <<"-">>]>> \o Tokens(Tail(s))
    ELSE IF s[1] \in Digits
    THEN LET n == Run(s, Digits)
             bad == n < Len(s) /\ s[n + 1] = "a"
         IN  <<[t |-> IF bad THEN "bad" ELSE "num", text |-> SubSeq(s, 1, n)]>>
                 \o Tokens(SubSeq(s, n + 1, Len(s)))
    ELSE LET n == Run(s, Digits \cup {"a"})
         IN  <<[t |-> "name", text |-> SubSeq(s, 1, n)]>>
                 \o Tokens(SubSeq(s, n + 1, Len(s)))

\* A decimal integer literal: no leading zero unless it is all zeros.
LiteralOk(d) == d[1] # "0" \/ \A i \in 1..Len(d) : d[i] = "0"

RECURSIVE Decimal(_)
Decimal(d) ==
    IF d = <<>> THEN 0
    ELSE 10 * Decimal(SubSeq(d, 1, Len(d) - 1)) + DigitVal(d[Len(d)])

\* The grammar of a Python expression over these tokens: atoms (numbers and
\* names) separated by at least one "-", any number of unary "-" in front of
\* an atom, the last token an atom.
SyntaxOk(ts) ==
    /\ ts # <<>>
    /\ ts[Len(ts)].t \in {"num", "name"}
    /\ \A i \in 1..Len(ts) : ts[i].t # "bad"
    /\ \A i \in 1..Len(ts) : ts[i].t = "num" => LiteralOk(ts[i].text)
    /\ \A i \in 1..(Len(ts) - 1) : ts[i].t = "op" \/ ts[i + 1].t = "op"

RECURSIVE Sum(_, _)
\* The value of the token sequence: every "-" in front of a number, unary or
\* binary, flips its sign.
Sum(ts, sign) ==
    IF ts = <<>> THEN 0
    ELSE IF ts[1].t = "op" THEN Sum(Tail(ts), 0 - sign)
    ELSE sign * Decimal(ts[1].text) + Sum(Tail(ts), 1)

\* eval(s): [exc, v]. No name made of the letter "a" and digits is bound
\* where the lambda runs.
Eval(s) ==
    LET ts == Tokens(s) IN
    IF ~SyntaxOk(ts) THEN [exc |-> "SyntaxError", v |-> 0]
    ELSE IF \E i \in 1..Len(ts) : ts[i].t = "name"
    THEN [exc |-> "NameError", v |-> 0]
    ELSE [exc |-> "", v |-> Sum(ts, 1)]

\* earned / total * 100 as a rational with a positive denominator.
Percent(earned, total) ==
    IF total > 0 THEN [num |-> 100 * earned, den |-> total]
    ELSE [num |-> 0 - 100 * earned, den |-> 0 - total]

\* lambda x: eval(x.split('/')[0].strip()) / eval(x.split('/')[1].strip()) * 100
\* in Python's order of evaluation: [exc, p].
Normalize(x) ==
    LET parts == Split(x)
        e == Eval(Strip(parts[1]))
        none == [num |-> 0, den |-> 1]
    IN  IF e.exc # "" THEN [exc |-> e.exc, p |-> none]
        ELSE IF Len(parts) < 2 THEN [exc |-> "IndexError", p |-> none]
        ELSE LET t == Eval(Strip(parts[2])) IN
             IF t.exc # "" THEN [exc |-> t.exc, p |-> none]
             ELSE IF t.v = 0 THEN [exc |-> "ZeroDivisionError", p |-> none]
             ELSE [exc |-> "", p |-> Percent(e.v, t.v)]

(***************************************************************************)
(* load_and_clean_data (lines 39-55).  A file is [readable, columns, rows]:*)
(* readable is whether pd.read_csv returns, columns the header names after *)
(* lower() and strip(), rows the records [name, score] of its lines.       *)
(***************************************************************************)
NaCell == <<>>

\* df[['name', 'score']].dropna()
DropNa(rows) == SelectSeq(rows, LAMBDA r : r.name # NaCell /\ r.score # NaCell)

\* df['score'].apply(lambda ...): the first exception a row raises, else "".
ApplyExc(rows) ==
    IF \A i \in 1..Len(rows) : Normalize(rows[i].score).exc = "" THEN ""
    ELSE LET i == CHOOSE k \in 1..Len(rows) :
                      /\ Normalize(rows[k].score).exc # ""
                      /\ \A j \in 1..(k - 1) : Normalize(rows[j].score).exc = ""
         IN  Normalize(rows[i].score).exc

ApplyScores(rows) ==
    [i \in 1..Len(rows) |->
        [name |-> rows[i].name, score |-> Normalize(rows[i].score).p]]

\* Variant: the first file that fails ends the loop.
LoadFileAbort ==
    /\ pc = "load"
    /\ fi <= Len(uploaded_files)
    /\ LET f == uploaded_files[fi]
           rows == DropNa(f.rows)
           exc == IF ~f.readable THEN "EmptyDataError"
                  ELSE IF ~({"name", "score"} \subseteq f.columns) THEN "columns"
                  ELSE ApplyExc(rows)
       IN  IF exc # ""
           THEN /\ errors' = Append(errors, <<fi, exc>>)
                /\ all_data' = all_data
                /\ fi' = Len(uploaded_files) + 1
           ELSE /\ all_data' = Append(all_data, ApplyScores(rows))
                /\ errors' = errors
                /\ fi' = fi + 1
    /\ UNCHANGED <<pc, uploaded_files, custom_topics, weeks, data, categorized,
                   batches, week, bi, ptr, assignments, output, shown, err,
                   raw, result>>

\* One iteration of the for loop: the try body of lines 43-50 on file fi, the
\* st.error of line 46 or of line 52, and the move to the next file.
LoadFile ==
    /\ pc = "load"
    /\ fi <= Len(uploaded_files)
    /\ LET f == uploaded_files[fi]
           rows == DropNa(f.rows)
           exc == IF ~f.readable THEN "EmptyDataError"
                  ELSE IF ~({"name", "score"} \subseteq f.columns) THEN "columns"
                  ELSE ApplyExc(rows)
       IN  IF exc # ""
           THEN /\ errors' = Append(errors, <<fi, exc>>)
                /\ all_data' = all_data
           ELSE /\ all_data' = Append(all_data, ApplyScores(rows))
                /\ errors' = errors
    /\ fi' = fi + 1
    /\ UNCHANGED <<pc, uploaded_files, custom_topics, weeks, data, categorized,
                   batches, week, bi, ptr, assignments, output, shown, err,
                   raw, result>>

\* Lines 53-55: the concatenation of the frames, or an empty frame.
LoadReturn ==
    /\ pc = "load"
    /\ fi > Len(uploaded_files)
    /\ data' = IF all_data # <<>> THEN Flatten(all_data) ELSE <<>>
    /\ pc' = "loaded"
    /\ UNCHANGED <<uploaded_files, custom_topics, weeks, fi, all_data, errors,
                   categorized, batches, week, bi, ptr, assignments, output,
                   shown, err, raw, result>>

\* The score lambda alone, on one raw string.
NormalizeRaw ==
    /\ pc = "normalize"
    /\ result' = Normalize(raw)
    /\ pc' = "normalized"
    /\ UNCHANGED <<uploaded_files, custom_topics, weeks, fi, all_data, errors,
                   data, categorized, batches, week, bi, ptr, assignments,
                   output, shown, err, raw>>

(***************************************************************************)
(* categorize_students (lines 58-62).                                      *)
(***************************************************************************)
bins == <<-1, 40, 70, 100>>
labels == <<"Low", "Medium", "High">>

\* p <= k and p > k for a rational p and an integer k
Le(p, k) == p.num <= k * p.den
Gt(p, k) == p.num > k * p.den

\* pd.cut(p, bins, labels): the label of the interval (bins[i], bins[i+1]]
\* that holds p, NaN when none does.
Cut(p) ==
    IF \E i \in 1..Len(labels) : Gt(p, bins[i]) /\ Le(p, bins[i + 1])
    THEN labels[CHOOSE i \in 1..Len(labels) : Gt(p, bins[i]) /\ Le(p, bins[i + 1])]
    ELSE NaN

Categorize ==
    /\ pc = "categorize"
    /\ data' = [i \in 1..Len(data) |->
                   [name |-> data[i].name, score |-> data[i].score,
                    category |-> Cut(data[i].score)]]
    /\ pc' = "batch"
    /\ UNCHANGED <<uploaded_files, custom_topics, weeks, fi, all_data, errors,
                   categorized, batches, week, bi, ptr, assignments, output,
                   shown, err, raw, result>>

(***************************************************************************)
(* create_balanced_batches (lines 65-77).                                  *)
(***************************************************************************)
\* data[data['category'] == label]
Select(frame, label) == SelectSeq(frame, LAMBDA r : r.category = label)

\* pool.iloc[:n] and pool.iloc[n:]
Take(pool, n) == SubSeq(pool, 1, Min(n, Len(pool)))
Drop(pool, n) == SubSeq(pool, Min(n, Len(pool)) + 1, Len(pool))

\* Line 66: the pools, keyed High, Medium, Low.
Pools(frame) == [label \in {"High", "Medium", "Low"} |-> Select(frame, label)]

\* Variant: all() in place of any().
WhileCondAll(cat) == \A label \in DOMAIN cat : Len(cat[label]) > 0

\* Line 69: any(len(v) > 0 for v in categorized.values())
WhileCond(cat) == \E label \in DOMAIN cat : Len(cat[label]) > 0

\* Variants: two of Low; Medium ahead of High.
NewBatchLowPair(cat) ==
    Take(cat["High"], 2) \o Take(cat["Medium"], 2) \o Take(cat["Low"], 2)

NewBatchMediumFirst(cat) ==
    Take(cat["Medium"], 2) \o Take(cat["High"], 2) \o Take(cat["Low"], 1)

\* Lines 70-71: two of High, two of Medium, one of Low, concatenated.
NewBatch(cat) ==
    Take(cat["High"], 2) \o Take(cat["Medium"], 2) \o Take(cat["Low"], 1)

\* Variant: every pool moves on by two rows.
AdvanceByTwo(pool, batch, label) == Drop(pool, 2)

\* Line 73: the pool without as many rows as the batch holds of its label.
Advance(pool, batch, label) == Drop(pool, Len(Select(batch, label)))

BatchInit ==
    /\ pc = "batch"
    /\ categorized' = Pools(data)
    /\ batches' = <<>>
    /\ pc' = "while"
    /\ UNCHANGED <<uploaded_files, custom_topics, weeks, fi, all_data,
                   errors, data, week, bi, ptr, assignments, output, shown,
                   err, raw, result>>

\* One iteration of the while loop (lines 69-75).
BatchIter ==
    /\ pc = "while"
    /\ WhileCond(categorized)
    /\ LET batch == NewBatch(categorized) IN
       /\ categorized' = [label \in DOMAIN categorized |->
                             Advance(categorized[label], batch, label)]
       /\ batches' = IF batch # <<>> THEN Append(batches, batch) ELSE batches
    /\ UNCHANGED <<pc, uploaded_files, custom_topics, weeks, fi, all_data,
                   errors, data, week, bi, ptr, assignments, output, shown,
                   err, raw, result>>

\* The loop condition fails: return batches (line 77).
BatchReturn ==
    /\ pc = "while"
    /\ ~WhileCond(categorized)
    /\ pc' = "assign"
    /\ UNCHANGED <<uploaded_files, custom_topics, weeks, fi, all_data,
                   errors, data, categorized, batches, week, bi, ptr,
                   assignments, output, shown, err, raw, result>>

(***************************************************************************)
(* assign_topics (lines 80-87).                                            *)
(***************************************************************************)
\* Lines 81-82: a fresh cycle over the topics and an empty list.
AssignInit ==
    /\ pc = "assign"
    /\ ptr' = 0
    /\ assignments' = <<>>
    /\ week' = 1
    /\ bi' = 0
    /\ pc' = "for"
    /\ UNCHANGED <<uploaded_files, custom_topics, weeks, fi, all_data,
                   errors, data, categorized, batches, output, shown, err,
                   raw, result>>

\* Variant: the pointer starts every week at the first topic.
AssignIterWeekly ==
    /\ pc = "for"
    /\ week <= weeks
    /\ batches # <<>>
    /\ IF custom_topics = <<>>
       THEN /\ err' = [type |-> "StopIteration", at |-> "assign_topics"]
            /\ pc' = "failed"
            /\ UNCHANGED <<assignments, ptr, bi, week>>
       ELSE /\ assignments' = Append(assignments,
                [Week |-> week, Batch |-> bi + 1,
                 Topic |-> custom_topics[ptr + 1].Topic])
            /\ ptr' = IF bi + 1 < Len(batches)
                      THEN (ptr + 1) % Len(custom_topics) ELSE 0
            /\ bi' = IF bi + 1 < Len(batches) THEN bi + 1 ELSE 0
            /\ week' = IF bi + 1 < Len(batches) THEN week ELSE week + 1
            /\ UNCHANGED <<err, pc>>
    /\ UNCHANGED <<uploaded_files, custom_topics, weeks, fi, all_data,
                   errors, data, categorized, batches, output, shown, raw,
                   result>>

\* One iteration of the inner loop (lines 85-86): next(topic_cycle) raises
\* StopIteration on an empty cycle, else yields the topic under the pointer
\* and moves the pointer on, wrapping at the end of the topics.
AssignIter ==
    /\ pc = "for"
    /\ week <= weeks
    /\ batches # <<>>
    /\ IF custom_topics = <<>>
       THEN /\ err' = [type |-> "StopIteration", at |-> "assign_topics"]
            /\ pc' = "failed"
            /\ UNCHANGED <<assignments, ptr, bi, week>>
       ELSE /\ assignments' = Append(assignments,
                [Week |-> week, Batch |-> bi + 1,
                 Topic |-> custom_topics[ptr + 1].Topic])
            /\ ptr' = (ptr + 1) % Len(custom_topics)
            /\ bi' = IF bi + 1 < Len(batches) THEN bi + 1 ELSE 0
            /\ week' = IF bi + 1 < Len(batches) THEN week ELSE week + 1
            /\ UNCHANGED <<err, pc>>
    /\ UNCHANGED <<uploaded_files, custom_topics, weeks, fi, all_data,
                   errors, data, categorized, batches, output, shown, raw,
                   result>>

\* Both loops are over (with no batches the inner loop never runs): line 87.
AssignReturn ==
    /\ pc = "for"
    /\ (week > weeks \/ batches = <<>>)
    /\ pc' = "compose"
    /\ UNCHANGED <<uploaded_files, custom_topics, weeks, fi, all_data,
                   errors, data, categorized, batches, week, bi, ptr,
                   assignments, output, shown, err, raw, result>>

(***************************************************************************)
(* prepare_output (lines 90-101).                                          *)
(***************************************************************************)
\* Lines 91-94: one row [Name, Batch] per student of every batch.
Membership(bs) ==
    Flatten([i \in 1..Len(bs) |->
                [j \in 1..Len(bs[i]) |-> [Name |-> bs[i][j].name, Batch |-> i]]])

\* Lines 98-99: the topic of the week's assignment for the batch label, NaN
\* when the week has none for it.
TopicFor(as, w, b) ==
    IF \E k \in 1..Len(as) : as[k].Week = w /\ as[k].Batch = b
    THEN as[CHOOSE k \in 1..Len(as) : as[k].Week = w /\ as[k].Batch = b].Topic
    ELSE NaN

\* assignment_df['Week'].max()
MaxWeek(as) ==
    CHOOSE w \in {as[k].Week : k \in 1..Len(as)} :
        \A k \in 1..Len(as) : as[k].Week <= w

\* pd.concat of no frames raises ValueError (line 91); a frame built from no
\* assignments has no 'Week' column (line 97).
Compose ==
    /\ pc = "compose"
    /\ IF batches = <<>>
       THEN /\ err' = [type |-> "ValueError", at |-> "prepare_output"]
            /\ pc' = "failed"
            /\ output' = output
       ELSE IF assignments = <<>>
       THEN /\ err' = [type |-> "KeyError", at |-> "prepare_output"]
            /\ pc' = "failed"
            /\ output' = output
       ELSE /\ output' =
                LET m == Membership(batches) IN
                [i \in 1..Len(m) |->
                    [Name |-> m[i].Name, Batch |-> m[i].Batch,
                     Topics |-> [w \in 1..MaxWeek(assignments) |->
                                    TopicFor(assignments, w, m[i].Batch)]]]
            /\ pc' = "present"
            /\ err' = err
    /\ UNCHANGED <<uploaded_files, custom_topics, weeks, fi, all_data,
                   errors, data, categorized, batches, week, bi, ptr,
                   assignments, shown, raw, result>>

(***************************************************************************)
(* The main block (lines 118-145).                                         *)
(***************************************************************************)
WeeksDefault == 5

\* Line 120: nothing runs without an uploaded file.
Start ==
    /\ pc = "start"
    /\ pc' = IF uploaded_files # <<>> THEN "load" ELSE "done"
    /\ UNCHANGED <<uploaded_files, custom_topics, weeks, fi, all_data,
                   errors, data, categorized, batches, week, bi, ptr,
                   assignments, output, shown, err, raw, result>>

\* Lines 122-123: an empty frame ends the run, else the count is shown.
Proceed ==
    /\ pc = "loaded"
    /\ IF data # <<>>
       THEN pc' = "categorize" /\ shown' = shown \cup {"success"}
       ELSE pc' = "done" /\ shown' = shown
    /\ UNCHANGED <<uploaded_files, custom_topics, weeks, fi, all_data,
                   errors, data, categorized, batches, week, bi, ptr,
                   assignments, output, err, raw, result>>

\* Lines 129-145: the table, the CSV download and the archive download.
Present ==
    /\ pc = "present"
    /\ shown' = shown \cup {"table", "csv", "zip"}
    /\ pc' = "done"
    /\ UNCHANGED <<uploaded_files, custom_topics, weeks, fi, all_data,
                   errors, data, categorized, batches, week, bi, ptr,
                   assignments, output, err, raw, result>>

(***************************************************************************)
(* Bounds and the inputs the specifications draw from.                     *)
(***************************************************************************)
MaxLen == 4        \* longest raw score string
MaxFiles == 2      \* most uploaded files
MaxRows == 2       \* most rows of a file
MaxStudents == 6   \* most students handed to categorize_students
MaxTopics == 3     \* most custom topics
MaxBatches == 4    \* most batches handed to assign_topics
MaxWeeks == 3      \* largest weeks handed to assign_topics
MaxNum == 210      \* largest numerator of a percentage
MaxDen == 2        \* largest denominator of a percentage

SeqsUpTo(S, n) == UNION {[1..k -> S] : k \in 0..n}

\* Lines 11-19.
default_topics ==
    <<[Topic |-> "Python Data Types and Variables",
       Description |-> "Lists, Tuples, Sets, Dictionaries"],
      [Topic |-> "Control Flow in Python",
       Description |-> "Conditional statements (if-else), loops (for, while)"],
      [Topic |-> "Functions in Python",
       Description |-> "Defining and calling functions, arguments, return values"],
      [Topic |-> "File Handling in Python",
       Description |-> "Reading and writing files (open(), read(), write())"],
      [Topic |-> "Exception Handling",
       Description |-> "try, except, finally"],
      [Topic |-> "Higher-Order Functions",
       Description |-> "map(), filter(), reduce()"],
      [Topic |-> "Object-Oriented Programming (OOP)",
       Description |-> "OOP concepts"]>>

\* Lines 21-35: the topics typed in the sidebar (here a prefix of the default
\* titles), the defaults when none was typed and the box is ticked, or none.
TopicChoices ==
    {SubSeq(default_topics, 1, Min(n, Len(default_topics))) : n \in 0..MaxTopics}
        \cup {default_topics}

\* Raw score cells.  Of a run: 0 %, 50 %, 100 %, 200 % and -100 %.  Of a
\* load: 50 %, a division by zero and an empty (NaN) cell.
RunCells ==
    {<<"0", "/", "1">>, <<"1", "/", "2">>, <<"1", "/", "1">>,
     <<"2", "/", "1">>, <<"-", "1", "/", "1">>}
LoadCells == {<<"1", "/", "2">>, <<"1", "/", "0">>, NaCell}

AllColumns == {"name", "score"}
Unreadable == [readable |-> FALSE, columns |-> {}, rows |-> <<>>]

\* The files of an upload: one that cannot be read, or a header and up to
\* MaxRows score cells.  A file without both columns is rejected before its
\* cells are read, so it comes only empty or with one row.
FileShapes(cells) ==
    {Unreadable} \cup
    {[readable |-> TRUE, columns |-> c, rows |-> r] :
        c \in {AllColumns}, r \in SeqsUpTo(cells, MaxRows)} \cup
    {[readable |-> TRUE, columns |-> c, rows |-> r] :
        c \in (SUBSET AllColumns) \ {AllColumns},
        r \in {<<>>, <<(<<"1", "/", "2">>)>>}}

\* The rows of the files named by their place: row r of file f is student <<f, r>>.
Named(shapes) ==
    [f \in 1..Len(shapes) |->
        [readable |-> shapes[f].readable, columns |-> shapes[f].columns,
         rows |-> [r \in 1..Len(shapes[f].rows) |->
                      [name |-> <<f, r>>, score |-> shapes[f].rows[r]]]]]

Uploads(cells) == {Named(fs) : fs \in SeqsUpTo(FileShapes(cells), MaxFiles)}

Pct(n) == [num |-> n, den |-> 1]
\* Percentages of each tier and of none: 20, 50, 90 and 120.
SamplePcts == {Pct(20), Pct(50), Pct(90), Pct(120)}
PctGrid == {[num |-> n, den |-> d] : n \in (0 - MaxNum)..MaxNum, d \in 1..MaxDen}

Scored(ps) == [i \in 1..Len(ps) |-> [name |-> <<1, i>>, score |-> ps[i]]]

\* n batches as create_balanced_batches returns them for n Low students.
LowBatches(n) ==
    [i \in 1..n |-> <<[name |-> <<1, i>>, score |-> Pct(20), category |-> "Low"]>>]

(***************************************************************************)
(* Spec: one run of the page, from the upload to the downloads.            *)
(***************************************************************************)
Init ==
    /\ pc = "start"
    /\ uploaded_files \in Uploads(RunCells)
    /\ custom_topics \in TopicChoices
    /\ weeks = WeeksDefault
    /\ fi = 1
    /\ all_data = <<>>
    /\ errors = <<>>
    /\ data = <<>>
    /\ categorized = Pools(<<>>)
    /\ batches = <<>>
    /\ week = 1
    /\ bi = 0
    /\ ptr = 0
    /\ assignments = <<>>
    /\ output = <<>>
    /\ shown = {}
    /\ err = NoErr
    /\ raw = <<>>
    /\ result = [exc |-> "", p |-> Pct(0)]

Next ==
    \/ Start
    \/ LoadFile
    \/ LoadReturn
    \/ Proceed
    \/ Categorize
    \/ BatchInit
    \/ BatchIter
    \/ BatchReturn
    \/ AssignInit
    \/ AssignIter
    \/ AssignReturn
    \/ Compose
    \/ Present

Spec == Init /\ [][Next]_vars

(***************************************************************************)
(* SpecScore: the score lambda on every string of up to MaxLen characters. *)
(***************************************************************************)
InitScore ==
    /\ pc = "normalize"
    /\ raw \in SeqsUpTo(Chars, MaxLen)
    /\ result = [exc |-> "", p |-> Pct(0)]
    /\ uploaded_files = <<>>
    /\ custom_topics = <<>>
    /\ weeks = WeeksDefault
    /\ fi = 1
    /\ all_data = <<>>
    /\ errors = <<>>
    /\ data = <<>>
    /\ categorized = Pools(<<>>)
    /\ batches = <<>>
    /\ week = 1
    /\ bi = 0
    /\ ptr = 0
    /\ assignments = <<>>
    /\ output = <<>>
    /\ shown = {}
    /\ err = NoErr

NextScore == NormalizeRaw

SpecScore == InitScore /\ [][NextScore]_vars

(***************************************************************************)
(* SpecLoad: load_and_clean_data on every upload of up to MaxFiles files.  *)
(***************************************************************************)
InitLoad ==
    /\ pc = "load"
    /\ uploaded_files \in Uploads(LoadCells)
    /\ custom_topics = <<>>
    /\ weeks = WeeksDefault
    /\ fi = 1
    /\ all_data = <<>>
    /\ errors = <<>>
    /\ data = <<>>
    /\ categorized = Pools(<<>>)
    /\ batches = <<>>
    /\ week = 1
    /\ bi = 0
    /\ ptr = 0
    /\ assignments = <<>>
    /\ output = <<>>
    /\ shown = {}
    /\ err = NoErr
    /\ raw = <<>>
    /\ result = [exc |-> "", p |-> Pct(0)]

NextLoad == LoadFile \/ LoadReturn

SpecLoad == InitLoad /\ [][NextLoad]_vars

(***************************************************************************)
(* SpecCat: categorize_students on one student of any percentage of the    *)
(* grid.                                                                   *)
(***************************************************************************)
InitCat ==
    /\ pc = "categorize"
    /\ data \in {Scored(<<p>>) : p \in PctGrid}
    /\ uploaded_files = <<>>
    /\ custom_topics = <<>>
    /\ weeks = WeeksDefault
    /\ fi = 1
    /\ all_data = <<>>
    /\ errors = <<>>
    /\ categorized = Pools(<<>>)
    /\ batches = <<>>
    /\ week = 1
    /\ bi = 0
    /\ ptr = 0
    /\ assignments = <<>>
    /\ output = <<>>
    /\ shown = {"success"}
    /\ err = NoErr
    /\ raw = <<>>
    /\ result = [exc |-> "", p |-> Pct(0)]

NextCat == Categorize

SpecCat == InitCat /\ [][NextCat]_vars

(***************************************************************************)
(* SpecBatch: categorize_students and create_balanced_batches on up to     *)
(* MaxStudents students, each of any tier or of none.                      *)
(***************************************************************************)
InitBatch ==
    /\ pc = "categorize"
    /\ data \in {Scored(ps) : ps \in SeqsUpTo(SamplePcts, MaxStudents)}
    /\ uploaded_files = <<>>
    /\ custom_topics = <<>>
    /\ weeks = WeeksDefault
    /\ fi = 1
    /\ all_data = <<>>
    /\ errors = <<>>
    /\ categorized = Pools(<<>>)
    /\ batches = <<>>
    /\ week = 1
    /\ bi = 0
    /\ ptr = 0
    /\ assignments = <<>>
    /\ output = <<>>
    /\ shown = {"success"}
    /\ err = NoErr
    /\ raw = <<>>
    /\ result = [exc |-> "", p |-> Pct(0)]

NextBatch == Categorize \/ BatchInit \/ BatchIter \/ BatchReturn

SpecBatch == InitBatch /\ [][NextBatch]_vars

\* The script runs to the end of the function: no step waits on anything.
FairSpecBatch == SpecBatch /\ WF_vars(NextBatch)

(***************************************************************************)
(* SpecTopics: assign_topics on 0..MaxBatches batches, the topic choices   *)
(* and 0..MaxWeeks weeks.                                                  *)
(***************************************************************************)
InitTopics ==
    /\ pc = "assign"
    /\ batches \in {LowBatches(n) : n \in 0..MaxBatches}
    /\ custom_topics \in TopicChoices
    /\ weeks \in 0..MaxWeeks
    /\ uploaded_files = <<>>
    /\ fi = 1
    /\ all_data = <<>>
    /\ errors = <<>>
    /\ data = <<>>
    /\ categorized = Pools(<<>>)
    /\ week = 1
    /\ bi = 0
    /\ ptr = 0
    /\ assignments = <<>>
    /\ output = <<>>
    /\ shown = {"success"}
    /\ err = NoErr
    /\ raw = <<>>
    /\ result = [exc |-> "", p |-> Pct(0)]

NextTopics == AssignInit \/ AssignIter \/ AssignReturn

SpecTopics == InitTopics /\ [][NextTopics]_vars

(***************************************************************************)
(* Properties.                                                             *)
(***************************************************************************)
Tiers == {"Low", "Medium", "High"}

\* How many rows of frame are the row r.
Count(frame, r) == Cardinality({i \in DOMAIN frame : frame[i] = r})

\* How many rows of frame carry the category c.
Tally(frame, c) == Cardinality({i \in DOMAIN frame : frame[i].category = c})

\* The rows of data of category c, in input order: the pool handed over.
PoolOf(c) == SelectSeq(data, LAMBDA r : r.category = c)

\* rows[from..to], keeping the positions that exist.
Slice(rows, from, to) == SubSeq(rows, from, Min(to, Len(rows)))

PoolTotal ==
    Len(categorized["High"]) + Len(categorized["Medium"]) + Len(categorized["Low"])

\* C1: with a non-empty topic list and 5 weeks, once prepare_output has
\* returned, the table holds exactly one row per loaded student and every row
\* has a topic in each of the 5 week columns.
C1_OneRowPerStudent ==
    (pc \in {"present", "done"} /\ custom_topics # <<>> /\ data # <<>>) =>
        /\ Len(output) = Len(data)
        /\ \A i \in DOMAIN data :
               Cardinality({k \in DOMAIN output : output[k].Name = data[i].name}) = 1
        /\ \A k \in DOMAIN output :
               /\ Len(output[k].Topics) = WeeksDefault
               /\ \A w \in DOMAIN output[k].Topics : output[k].Topics[w] # NaN

\* C2: when create_balanced_batches returns, every row occurs in the batches
\* together as often as in the three pools together.
C2_BatchesPartitionPools ==
    pc = "assign" =>
        \A i \in DOMAIN data :
            Count(Flatten(batches), data[i]) =
                IF data[i].category \in Tiers THEN Count(data, data[i]) ELSE 0

C2_Witness ==
    /\ pc = "assign"
    /\ Len(batches) >= 2
    /\ \A c \in Tiers : Tally(data, c) >= 1

\* C3: every batch, at every point of the loop and in the result, holds at
\* most 2 High, at most 2 Medium and at most 1 Low student.
C3_Quota ==
    \A k \in DOMAIN batches :
        /\ Tally(batches[k], "High") <= 2
        /\ Tally(batches[k], "Medium") <= 2
        /\ Tally(batches[k], "Low") <= 1
        /\ Len(batches[k]) <= 5

\* A last batch formed after two pools ran out, behind a full tier quota.
C3_Witness ==
    /\ pc = "assign"
    /\ Len(batches) >= 2
    /\ Tally(batches[1], "High") = 2
    /\ Tally(batches[1], "Low") = 1
    /\ \E c \in Tiers : Tally(batches[Len(batches)], c) = Len(batches[Len(batches)])

\* C4: with at least one topic, assign_topics returns B*W assignments, the
\* one for week w and batch b at place (w-1)*B + b and with the title of the
\* topic at 0-based index ((w-1)*B + (b-1)) mod T.
C4_Rotation ==
    (pc = "compose" /\ custom_topics # <<>>) =>
        LET B == Len(batches)
            T == Len(custom_topics)
        IN  /\ Len(assignments) = B * weeks
            /\ \A w \in 1..weeks : \A b \in 1..B :
                   /\ Cardinality({k \in DOMAIN assignments :
                          assignments[k].Week = w /\ assignments[k].Batch = b}) = 1
                   /\ assignments[(w - 1) * B + b] =
                          [Week |-> w, Batch |-> b,
                           Topic |-> custom_topics[(((w - 1) * B + (b - 1)) % T) + 1].Topic]

\* Several weeks of several batches, the batch count no multiple of the topic
\* count, so the pointer enters a week in the middle of the topics.
C4_Witness ==
    /\ pc = "compose"
    /\ Len(batches) >= 2
    /\ weeks >= 2
    /\ Len(custom_topics) >= 2
    /\ Len(batches) % Len(custom_topics) # 0
    /\ Len(assignments) = Len(batches) * weeks

\* C5: with an empty topic list and at least one loaded student the run ends
\* in an error raised by assign_topics, and neither the table nor a download
\* is ever rendered.
C5_EmptyTopicsFailInRotator ==
    (custom_topics = <<>> /\ data # <<>>) =>
        /\ shown \cap {"table", "csv", "zip"} = {}
        /\ pc \in {"done", "failed"} => (pc = "failed" /\ err.at = "assign_topics")

\* A numeric literal: digits, with at most one sign in front.
IsLiteral(s) ==
    /\ s # <<>>
    /\ \A i \in 2..Len(s) : s[i] \in Digits
    /\ s[1] \in Digits \cup {"-"}
    /\ s # <<"-">>

IsZero(s) == IsLiteral(s) /\ \A i \in 1..Len(s) : s[i] \in {"0", "-"}

Slashes(s) == {i \in 1..Len(s) : s[i] = "/"}

\* The raw string is not two numeric literals around one slash, or its total
\* is zero.
Malformed(s) ==
    \/ Cardinality(Slashes(s)) # 1
    \/ LET i == CHOOSE k \in Slashes(s) : TRUE
           earned == Strip(SubSeq(s, 1, i - 1))
           total == Strip(SubSeq(s, i + 1, Len(s)))
       IN  ~IsLiteral(earned) \/ ~IsLiteral(total) \/ IsZero(total)

\* C6: a raw score without a slash, with more than one, with a side that is
\* no numeric literal or with a zero total yields an error, never a
\* percentage.
C6_MalformedScoreFails ==
    (pc = "normalized" /\ Malformed(raw)) => result.exc # ""

\* A file whose reading and normalization raise nothing and whose header has
\* both columns, and its cleaned rows.
Kept(f) == SelectSeq(f.rows, LAMBDA r : r.name # NaCell /\ r.score # NaCell)

Good(f) ==
    /\ f.readable
    /\ {"name", "score"} \subseteq f.columns
    /\ \A i \in DOMAIN Kept(f) : Normalize(Kept(f)[i].score).exc = ""

Cleaned(f) ==
    [i \in DOMAIN Kept(f) |->
        [name |-> Kept(f)[i].name, score |-> Normalize(Kept(f)[i].score).p]]

\* C7: load_and_clean_data returns the cleaned rows of the good files, in
\* file order, and reports exactly one error for each other file, wherever
\* that file stands.
C7_BadFilesIsolated ==
    pc = "loaded" =>
        /\ data = Flatten([f \in DOMAIN uploaded_files |->
                              IF Good(uploaded_files[f])
                              THEN Cleaned(uploaded_files[f]) ELSE <<>>])
        /\ \A f \in DOMAIN uploaded_files :
               Cardinality({k \in DOMAIN errors : errors[k][1] = f}) =
                   IF Good(uploaded_files[f]) THEN 0 ELSE 1

\* A bad file first, a good file with rows behind it.
C7_Witness ==
    /\ pc = "loaded"
    /\ Len(uploaded_files) >= 2
    /\ ~Good(uploaded_files[1])
    /\ Good(uploaded_files[2])
    /\ data # <<>>
    /\ errors # <<>>

\* C8: categorize_students gives every percentage one of the three tiers:
\* Low up to 40, Medium above 40 up to 70, High above 70.
C8_CategorizeTotal ==
    pc = "batch" =>
        \A i \in DOMAIN data :
            LET p == data[i].score
                c == data[i].category
            IN  /\ c \in Tiers
                /\ Le(p, 40) => c = "Low"
                /\ (Gt(p, 40) /\ Le(p, 70)) => c = "Medium"
                /\ (Gt(p, 70) /\ Le(p, 100)) => c = "High"

\* C9: the loop of create_balanced_batches ends, and ends exactly when the
\* three pools are empty; every iteration takes a student out of the pools
\* and appends a non-empty batch; no batch is empty; without a pooled student
\* the result is empty.
C9_LoopTerminates ==
    /\ [][(pc = "while" /\ pc' = "while") =>
             /\ PoolTotal' < PoolTotal
             /\ Len(batches') = Len(batches) + 1
             /\ batches'[Len(batches')] # <<>>]_vars
    /\ [][(pc = "while" /\ pc' = "assign") =>
             (PoolTotal = 0 /\ batches' = batches)]_vars
    /\ [][(pc = "while" /\ PoolTotal = 0) => pc' = "assign"]_vars
    /\ [](\A k \in DOMAIN batches : batches[k] # <<>>)
    /\ []((pc = "assign" /\ \A i \in DOMAIN data : data[i].category \notin Tiers)
             => batches = <<>>)
    /\ <>(pc = "assign")

\* The loop ran more than once, its last rounds on one pool alone, and ended.
C9_Witness ==
    /\ pc = "assign"
    /\ Len(batches) >= 3
    /\ PoolTotal = 0
    /\ Tally(data, "Medium") = 0

\* C10: batch k is the High students at pool positions 2k-1 and 2k, then the
\* Medium students at 2k-1 and 2k, then the Low student at k, as far as they
\* exist, and there are max(ceil(H/2), ceil(M/2), L) batches.
C10_BatchLayout ==
    pc = "assign" =>
        LET H == PoolOf("High")
            M == PoolOf("Medium")
            L == PoolOf("Low")
        IN  /\ Len(batches) =
                   Max(Max((Len(H) + 1) \div 2, (Len(M) + 1) \div 2), Len(L))
            /\ \A k \in DOMAIN batches :
                   batches[k] = Slice(H, 2 * k - 1, 2 * k)
                                    \o Slice(M, 2 * k - 1, 2 * k)
                                    \o Slice(L, k, k)

\* Batches short of a tier whose pool ran out, and a full first one.
C10_Witness ==
    /\ pc = "assign"
    /\ Len(PoolOf("High")) >= 2
    /\ Len(PoolOf("Medium")) >= 1
    /\ Len(PoolOf("Low")) >= 2
    /\ Len(batches) >= 2

====
